---- MODULE Spec2Model ----
(***************************************************************************)
(* Chunk-framed decompressing readers of package orc                       *)
(* (compressioncodec.go): CompressionNone, CompressionZlibDecoder and      *)
(* CompressionSnappyDecoder, each reading from an io.Reader source.        *)
(*                                                                         *)
(* Bytes are naturals 0..255, errors are strings ("nil" is Go's nil        *)
(* error).  The source is a byte sequence with a read position; it obeys   *)
(* the io.Reader contract: a read of up to k bytes returns between 1 and   *)
(* k bytes, or 0 bytes with io.EOF at end of input, or 0 bytes with the    *)
(* error of a source that has failed.                                      *)
(***************************************************************************)
EXTENDS Integers, Sequences, FiniteSets, TLC

\* ------------------------------------------------------------------ bounds
MaxChunks == 2
MaxBuf == 2
MaxCalls == 12
MaxTrunc == 2
MaxFaultChunks == 1
MaxPairChunks == 1

\* ----------------------------------------------------------------- helpers
Min(a, b) == IF a < b THEN a ELSE b

Take(s, n) == SubSeq(s, 1, Min(n, Len(s)))

Drop(s, n) == SubSeq(s, Min(n, Len(s)) + 1, Len(s))

RECURSIVE Flatten(_)
Flatten(ss) == IF ss = <<>> THEN <<>> ELSE Head(ss) \o Flatten(Tail(ss))

\* --------------------------------------------------------------- io.Reader
\* The source: content S, read position p, mode m ("full": every read
\* returns all it can, as bytes.Reader and os.File do; "short": a read may
\* return fewer bytes than asked although more are to come), fault f
\* (f.on: the source breaks for good once its position reaches f.at, and
\* every read from there on fails with the error f.err).
SrcLimit(S, f) == IF f.on THEN Min(f.at, Len(S)) ELSE Len(S)

SrcEndErr(S, f) == IF f.on /\ f.at <= Len(S) THEN f.err ELSE "EOF"

\* source.Read(p[:k]), k >= 1: the set of (n, err) it may return.
SrcRead(S, m, f, p, k) ==
    LET avail == SrcLimit(S, f) - p IN
    IF avail <= 0 THEN {[n |-> 0, err |-> SrcEndErr(S, f)]}
    ELSE IF m = "full" THEN {[n |-> Min(k, avail), err |-> "nil"]}
    ELSE {[n |-> j, err |-> "nil"] : j \in 1..Min(k, avail)}

\* ------------------------------------------------------------ chunk header
\* binary.LittleEndian.Uint32 of the 4-byte header buffer.
Uint32(h) == h[1] + h[2] * 256 + h[3] * 65536 + h[4] * 16777216

\* header := make([]byte, 4, 4) after source.Read(header[:3]) returned n:
\* the first n bytes come from the source, the others stay zero.
HeaderBuf(S, p, n) == [i \in 1..4 |-> IF i <= n THEN S[p + i] ELSE 0]

\* A decoder that takes the flag the wrong way round.
HeaderIsOriginalInverted(headerVal) == headerVal % 2 = 0

\* c.isOriginal = headerVal%2 == 1
HeaderIsOriginal(headerVal) == headerVal % 2 = 1

\* A decoder that keeps the length in 16 bits.
HeaderChunkLength16(headerVal) == (headerVal \div 2) % 65536

\* c.chunkLength = int(headerVal / 2)
HeaderChunkLength(headerVal) == headerVal \div 2

\* ------------------------------------------------------------ compress/flate
\* The raw-DEFLATE decompressor on the bytes s it can obtain, from block
\* header index i on, with acc the output so far.  Stored blocks (BTYPE 00)
\* and the reserved block type (BTYPE 11) are decoded as RFC 1951 says;
\* res is "done" (final block complete), "short" (input ran out),
\* "corrupt", or "huffman" (a Huffman block: outside this model).
\* used is the number of input bytes the decompressor needed.
RECURSIVE Inflate(_, _, _)
Inflate(s, i, acc) ==
    IF i > Len(s) THEN [out |-> acc, res |-> "short", used |-> Len(s)]
    ELSE
      LET final == s[i] % 2 = 1
          btype == (s[i] \div 2) % 4
      IN
      IF btype = 3 THEN [out |-> acc, res |-> "corrupt", used |-> i]
      ELSE IF btype # 0 THEN [out |-> acc, res |-> "huffman", used |-> i]
      ELSE IF i + 4 > Len(s) THEN [out |-> acc, res |-> "short", used |-> Len(s)]
      ELSE
        LET len == s[i + 1] + 256 * s[i + 2]
            nlen == s[i + 3] + 256 * s[i + 4]
        IN
        IF nlen # 65535 - len THEN [out |-> acc, res |-> "corrupt", used |-> i + 4]
        ELSE IF i + 4 + len > Len(s)
          THEN [out |-> acc \o SubSeq(s, i + 5, Len(s)), res |-> "short", used |-> Len(s)]
        ELSE IF final
          THEN [out |-> acc \o SubSeq(s, i + 5, i + 4 + len), res |-> "done", used |-> i + 4 + len]
        ELSE Inflate(s, i + 5 + len, acc \o SubSeq(s, i + 5, i + 4 + len))

\* ------------------------------------------------------------------ snappy
\* binary.Uvarint: [v, n] with n the bytes used, n = 0 when s ends before
\* the varint does.  A varint of 5 bytes or more (a decoded length of 2^28
\* or more) is reported as n = 5 and not evaluated.
RECURSIVE Uvarint(_, _, _, _)
Uvarint(s, i, mult, acc) ==
    IF i > Len(s) THEN [v |-> 0, n |-> 0]
    ELSE IF i > 4 THEN [v |-> 0, n |-> 5]
    ELSE IF s[i] < 128 THEN [v |-> acc + s[i] * mult, n |-> i]
    ELSE Uvarint(s, i + 1, mult * 128, acc + (s[i] - 128) * mult)

\* Little-endian value of s[a..b].
RECURSIVE LE(_, _, _)
LE(s, a, b) == IF a > b THEN 0 ELSE s[a] + 256 * LE(s, a + 1, b)

\* dst extended by length bytes, each copied from offset bytes back.
RECURSIVE SnappyCopy(_, _, _)
SnappyCopy(dst, offset, length) ==
    IF length = 0 THEN dst
    ELSE SnappyCopy(Append(dst, dst[Len(dst) + 1 - offset]), offset, length - 1)

\* The element loop of snappy.Decode: s the block, i the index of the next
\* tag byte, dst the output so far, dLen the declared decoded length.
RECURSIVE SnappyElements(_, _, _, _)
SnappyElements(s, i, dst, dLen) ==
    IF i > Len(s)
      THEN IF Len(dst) = dLen THEN [ok |-> TRUE, out |-> dst]
           ELSE [ok |-> FALSE, out |-> <<>>]
    ELSE
      LET tag == s[i]
          x == tag \div 4
          bad == [ok |-> FALSE, out |-> <<>>]
      IN
      IF tag % 4 = 0 THEN
        \* tagLiteral
        LET extra == IF x < 60 THEN 0 ELSE x - 59
            j == i + 1 + extra
        IN
        IF j - 1 > Len(s) THEN bad
        ELSE
          \* a 4-byte length with a non-zero top byte exceeds every block
          LET length == (IF x < 60 THEN x
                         ELSE IF extra = 4 /\ s[i + 4] > 0 THEN 16777216
                         ELSE LE(s, i + 1, i + Min(extra, 3))) + 1 IN
          IF length > dLen - Len(dst) \/ length > Len(s) - (j - 1) THEN bad
          ELSE SnappyElements(s, j + length, dst \o SubSeq(s, j, j + length - 1), dLen)
      ELSE
        LET width == IF tag % 4 = 1 THEN 2 ELSE IF tag % 4 = 2 THEN 3 ELSE 5
            j == i + width
        IN
        IF j - 1 > Len(s) THEN bad
        ELSE
          LET length == IF tag % 4 = 1 THEN 4 + (x % 8) ELSE 1 + x
              \* a 4-byte offset with a non-zero top byte exceeds every dst
              offset == IF tag % 4 = 1 THEN (tag \div 32) * 256 + s[i + 1]
                        ELSE IF tag % 4 = 3 /\ s[i + 4] > 0 THEN 16777216
                        ELSE LE(s, i + 1, Min(j - 1, i + 3))
          IN
          IF offset <= 0 \/ Len(dst) < offset \/ length > dLen - Len(dst) THEN bad
          ELSE SnappyElements(s, j, SnappyCopy(dst, offset, length), dLen)

\* snappy.Decode(nil, s): ok = FALSE is snappy.ErrCorrupt.  No block of the
\* sizes modelled decodes to 2^28 bytes or more, so such a declared length
\* always ends in ErrCorrupt.
SnappyDecode(s) ==
    LET d == Uvarint(s, 1, 1, 0) IN
    IF d.n <= 0 \/ d.n > 4 THEN [ok |-> FALSE, out |-> <<>>]
    ELSE SnappyElements(s, d.n + 1, <<>>, d.v)

\* ----------------------------------------------------------- chunk readers
\* The value of the decoder's field `decoded`: t = "nil" (no chunk reader),
\* "limit" (io.LimitReader over the source, N bytes left), "flate"
\* (flate.NewReader over an io.LimitReader with N bytes left; data is the
\* decompressed output not yet handed over, ferr the decompressor's final
\* error once it has run) or "bytes" (bytes.Reader over data).
NilReader == [t |-> "nil", N |-> 0, data |-> <<>>, ferr |-> "nil"]

LimitReader(n) == [t |-> "limit", N |-> n, data |-> <<>>, ferr |-> "nil"]

FlateReader(n) == [t |-> "flate", N |-> n, data |-> <<>>, ferr |-> "nil"]

BytesReader(b) == [t |-> "bytes", N |-> 0, data |-> b, ferr |-> "nil"]

\* io.LimitedReader.Read: at most N bytes of the source, io.EOF at N = 0
\* without touching the source.
LimitRead(S, m, f, p, rd, k) ==
    IF rd.N <= 0
      THEN {[n |-> 0, err |-> "EOF", bytes |-> <<>>, pos |-> p, rd |-> rd, srcErrs |-> 0]}
    ELSE {[n |-> r.n, err |-> r.err, bytes |-> SubSeq(S, p + 1, p + r.n),
           pos |-> p + r.n, rd |-> [rd EXCEPT !.N = rd.N - r.n],
           srcErrs |-> IF r.err \notin {"nil", "EOF"} THEN 1 ELSE 0] :
            r \in SrcRead(S, m, f, p, Min(k, rd.N))}

\* bytes.Reader.Read.
BytesRead(p, rd, k) ==
    IF rd.data = <<>>
      THEN [n |-> 0, err |-> "EOF", bytes |-> <<>>, pos |-> p, rd |-> rd, srcErrs |-> 0]
    ELSE [n |-> Min(k, Len(rd.data)), err |-> "nil", bytes |-> Take(rd.data, k),
          pos |-> p, rd |-> [rd EXCEPT !.data = Drop(rd.data, k)], srcErrs |-> 0]

\* flate's decompressor.Read: hand over pending output; the final error
\* goes with the last pending bytes, or alone when nothing is pending.
FlateDeliver(p, rd, k, srcErrs) ==
    LET rest == Drop(rd.data, k) IN
    [n |-> Min(k, Len(rd.data)), err |-> IF rest = <<>> THEN rd.ferr ELSE "nil",
     bytes |-> Take(rd.data, k), pos |-> p, rd |-> [rd EXCEPT !.data = rest],
     srcErrs |-> srcErrs]

\* The first Read of a flate reader runs the decompressor until its final
\* block, an error or the end of its input (the blocks modelled are far
\* smaller than flate's 32 KiB window, so nothing is handed over earlier).
\* Its bufio.Reader asks the limited source for up to 4096 bytes at a time:
\* a "full" source hands over the whole chunk body at once, a "short" one
\* any amount between what the decompressor needed and the whole body.
FlateRead(S, m, f, p, rd, k) ==
    IF rd.ferr # "nil" \/ rd.data # <<>> THEN {FlateDeliver(p, rd, k, 0)}
    ELSE
      LET avail == Min(rd.N, SrcLimit(S, f) - p)
          D == Inflate(SubSeq(S, p + 1, p + avail), 1, <<>>)
          \* the end the bounded source reports once avail bytes are read
          endErr == IF rd.N - avail = 0 THEN "EOF" ELSE SrcEndErr(S, f)
          ferr == CASE D.res = "done" -> "EOF"
                    [] D.res = "corrupt" -> "CorruptInputError"
                    [] D.res = "huffman" -> "Unmodelled"
                    [] OTHER -> IF endErr = "EOF" THEN "ErrUnexpectedEOF" ELSE endErr
          taken == IF D.res = "short" \/ m = "full" THEN {avail} ELSE D.used..avail
          errs == IF D.res = "short" /\ endErr # "EOF" THEN 1 ELSE 0
      IN
      {FlateDeliver(p + c, [rd EXCEPT !.N = rd.N - c, !.data = D.out, !.ferr = ferr], k, errs) :
         c \in taken}

\* c.decoded.Read(p) with len(p) = k.
ChunkRead(S, m, f, p, rd, k) ==
    CASE rd.t = "limit" -> LimitRead(S, m, f, p, rd, k)
      [] rd.t = "flate" -> FlateRead(S, m, f, p, rd, k)
      [] rd.t = "bytes" -> {BytesRead(p, rd, k)}

\* ioutil.ReadAll(io.LimitReader(source, n)) from position p: reads until
\* the limit or the end of the source; io.EOF is success.
ReadAllLimited(S, f, p, n) ==
    LET avail == Min(n, SrcLimit(S, f) - p)
        endErr == IF n - avail = 0 THEN "EOF" ELSE SrcEndErr(S, f)
    IN [bytes |-> SubSeq(S, p + 1, p + avail), pos |-> p + avail,
        err |-> IF endErr = "EOF" THEN "nil" ELSE endErr,
        srcErrs |-> IF endErr # "EOF" THEN 1 ELSE 0]

\* ---------------------------------------------------------------- decoders
\* A decoder's fields st = [pos, decoded, isOriginal, chunkLength] (pos is
\* the position of its source) and what one call does to them: the fields
\* after the call, the (n, err) it returns, the bytes it puts into the
\* caller's buffer, and what happened inside: hdr (the call parsed a
\* header), hn (bytes the header read got), inner (the error the source or
\* the chunk reader reported, before Read translates it), srcErrs (source
\* reads that failed with an error other than io.EOF).
Outcome(st, n, err, bytes, hdr, hn, inner, srcErrs) ==
    [pos |-> st.pos, decoded |-> st.decoded, isOriginal |-> st.isOriginal,
     chunkLength |-> st.chunkLength, n |-> n, err |-> err, bytes |-> bytes,
     hdr |-> hdr, hn |-> hn, inner |-> inner, srcErrs |-> srcErrs]

\* (*CompressionZlibDecoder).readHeader
ZlibReadHeader(S, m, f, st) ==
    {IF r.err # "nil"
       THEN Outcome(st, 0, r.err, <<>>, TRUE, r.n, r.err, IF r.err = "EOF" THEN 0 ELSE 1)
     ELSE
       LET headerVal == Uint32(HeaderBuf(S, st.pos, r.n))
           orig == HeaderIsOriginal(headerVal)
           len == HeaderChunkLength(headerVal)
       IN Outcome([pos |-> st.pos + r.n,
                   decoded |-> IF ~orig THEN FlateReader(len) ELSE LimitReader(len),
                   isOriginal |-> orig, chunkLength |-> len],
                  0, "nil", <<>>, TRUE, r.n, "nil", 0) :
     r \in SrcRead(S, m, f, st.pos, 3)}

\* A Read that returns the chunk reader's result as it is, io.EOF too.
ReadChunkRaw(st, i, endOfChunk) ==
    Outcome([st EXCEPT !.pos = i.pos, !.decoded = i.rd],
            i.n, i.err, i.bytes, FALSE, 0, i.err, i.srcErrs)

\* A Read that reports the end of a chunk as nil but keeps the exhausted
\* chunk reader.
ReadChunkKeep(st, i, endOfChunk) ==
    Outcome([st EXCEPT !.pos = i.pos, !.decoded = i.rd],
            i.n, IF i.err \in endOfChunk THEN "nil" ELSE i.err, i.bytes,
            FALSE, 0, i.err, i.srcErrs)

\* The tail of both Read methods: the chunk reader's result i, with the
\* errors in endOfChunk turned into "chunk finished, no error".
ReadChunk(st, i, endOfChunk) ==
    IF i.err \in endOfChunk
      THEN Outcome([st EXCEPT !.pos = i.pos, !.decoded = NilReader],
                   i.n, "nil", i.bytes, FALSE, 0, i.err, i.srcErrs)
    ELSE Outcome([st EXCEPT !.pos = i.pos, !.decoded = i.rd],
                 i.n, i.err, i.bytes, FALSE, 0, i.err, i.srcErrs)

\* A Read that, finding no chunk reader, parses the header and goes on to
\* read the new chunk in the same call.
ZlibReadEager(S, m, f, st, k) ==
    IF st.decoded.t = "nil"
      THEN UNION {IF h.err # "nil" THEN {h}
                  ELSE {[ReadChunk([pos |-> h.pos, decoded |-> h.decoded,
                                    isOriginal |-> h.isOriginal,
                                    chunkLength |-> h.chunkLength], i, {"EOF"})
                           EXCEPT !.hdr = TRUE, !.hn = h.hn] :
                          i \in ChunkRead(S, m, f, h.pos, h.decoded, k)} :
                  h \in ZlibReadHeader(S, m, f, st)}
    ELSE {ReadChunk(st, i, {"EOF"}) : i \in ChunkRead(S, m, f, st.pos, st.decoded, k)}

\* (*CompressionZlibDecoder).Read with len(p) = k
ZlibRead(S, m, f, st, k) ==
    IF st.decoded.t = "nil" THEN ZlibReadHeader(S, m, f, st)
    ELSE {ReadChunk(st, i, {"EOF"}) : i \in ChunkRead(S, m, f, st.pos, st.decoded, k)}

\* A readHeader that, when the chunk body cannot be read or decoded, puts
\* the source back where the call found it.
SnappyReadHeaderRewind(S, m, f, st) ==
    {IF r.err # "nil"
       THEN Outcome(st, 0, r.err, <<>>, TRUE, r.n, r.err, IF r.err = "EOF" THEN 0 ELSE 1)
     ELSE
       LET headerVal == Uint32(HeaderBuf(S, st.pos, r.n))
           orig == HeaderIsOriginal(headerVal)
           len == HeaderChunkLength(headerVal)
           hst == [st EXCEPT !.pos = st.pos + r.n, !.isOriginal = orig, !.chunkLength = len]
       IN
       IF ~orig THEN
         LET all == ReadAllLimited(S, f, hst.pos, len)
             dec == SnappyDecode(all.bytes)
         IN
         IF all.err # "nil"
           THEN Outcome([hst EXCEPT !.pos = st.pos], 0, all.err, <<>>, TRUE, r.n,
                        all.err, all.srcErrs)
         ELSE IF ~dec.ok
           THEN Outcome([hst EXCEPT !.pos = st.pos], 0, "ErrCorrupt", <<>>, TRUE, r.n,
                        "ErrCorrupt", 0)
         ELSE Outcome([hst EXCEPT !.pos = all.pos, !.decoded = BytesReader(dec.out)],
                      0, "nil", <<>>, TRUE, r.n, "nil", 0)
       ELSE Outcome([hst EXCEPT !.decoded = LimitReader(len)],
                    0, "nil", <<>>, TRUE, r.n, "nil", 0) :
     r \in SrcRead(S, m, f, st.pos, 3)}

\* (*CompressionSnappyDecoder).readHeader
SnappyReadHeader(S, m, f, st) ==
    {IF r.err # "nil"
       THEN Outcome(st, 0, r.err, <<>>, TRUE, r.n, r.err, IF r.err = "EOF" THEN 0 ELSE 1)
     ELSE
       LET headerVal == Uint32(HeaderBuf(S, st.pos, r.n))
           orig == HeaderIsOriginal(headerVal)
           len == HeaderChunkLength(headerVal)
           hst == [st EXCEPT !.pos = st.pos + r.n, !.isOriginal = orig, !.chunkLength = len]
       IN
       IF ~orig THEN
         LET all == ReadAllLimited(S, f, hst.pos, len)
             dec == SnappyDecode(all.bytes)
             ast == [hst EXCEPT !.pos = all.pos]
         IN
         IF all.err # "nil"
           THEN Outcome(ast, 0, all.err, <<>>, TRUE, r.n, all.err, all.srcErrs)
         ELSE IF ~dec.ok
           THEN Outcome(ast, 0, "ErrCorrupt", <<>>, TRUE, r.n, "ErrCorrupt", 0)
         ELSE Outcome([ast EXCEPT !.decoded = BytesReader(dec.out)],
                      0, "nil", <<>>, TRUE, r.n, "nil", 0)
       ELSE Outcome([hst EXCEPT !.decoded = LimitReader(len)],
                    0, "nil", <<>>, TRUE, r.n, "nil", 0) :
     r \in SrcRead(S, m, f, st.pos, 3)}

\* (*CompressionSnappyDecoder).Read with len(p) = k
SnappyRead(S, m, f, st, k) ==
    IF st.decoded.t = "nil" THEN SnappyReadHeader(S, m, f, st)
    ELSE {ReadChunk(st, i, {"EOF", "ErrCorrupt"}) :
            i \in ChunkRead(S, m, f, st.pos, st.decoded, k)}

\* CompressionNone.Decoder returns the source itself: Read is source.Read.
NoneRead(S, m, f, st, k) ==
    {Outcome([st EXCEPT !.pos = st.pos + r.n], r.n, r.err,
             SubSeq(S, st.pos + 1, st.pos + r.n), FALSE, 0, r.err,
             IF r.err \notin {"nil", "EOF"} THEN 1 ELSE 0) :
     r \in SrcRead(S, m, f, st.pos, k)}

\* ------------------------------------------------------------------ inputs
\* The 3-byte chunk header of (isOriginal, chunkLength): 2 * chunkLength +
\* isOriginal, little-endian.
HeaderBytes(orig, len) ==
    LET v == 2 * len + (IF orig THEN 1 ELSE 0)
    IN <<v % 256, (v \div 256) % 256, (v \div 65536) % 256>>

\* One raw-DEFLATE stored block holding P (RFC 1951, 3.2.4).
StoredBlock(P, final) ==
    <<IF final THEN 1 ELSE 0, Len(P) % 256, Len(P) \div 256,
      255 - (Len(P) % 256), 255 - (Len(P) \div 256)>> \o P

\* A chunk: header fields, body bytes, the content it decodes to, and
\* whether the body is a valid encoding of that content.
Chunk(orig, body, content, valid) ==
    [orig |-> orig, len |-> Len(body), body |-> body, content |-> content, valid |-> valid]

\* The bytes of a Zlib stream that a misaligned parse may take for a DEFLATE
\* block header have b % 8 in {0, 1, 6, 7}: they announce a stored block or
\* the reserved type, never a Huffman block (InflateModelled checks it).
Payloads == {<<>>, <<65, 72, 73>>}

OriginalChunks == {Chunk(TRUE, P, P, TRUE) : P \in Payloads}

ZlibChunks ==
    OriginalChunks \cup
    {Chunk(FALSE, StoredBlock(<<65, 72>>, FALSE) \o StoredBlock(<<>>, TRUE), <<65, 72>>, TRUE),
     Chunk(FALSE, <<7, 0, 0>>, <<>>, FALSE)}

SnappyChunks ==
    OriginalChunks \cup
    {Chunk(FALSE, <<2, 0, 65, 2, 1, 0>>, <<65, 65>>, TRUE),
     Chunk(FALSE, <<1>>, <<>>, FALSE)}

Pool(K) == CASE K = "zlib" -> ZlibChunks
             [] K = "snappy" -> SnappyChunks
             [] OTHER -> OriginalChunks

Kinds == {"none", "zlib", "snappy"}

\* Sequences of at most n chunks of decoder kind K.
ChunkSeqs(K, n) == UNION {[1..j -> Pool(K)] : j \in 0..n}

ChunkBytes(c) == HeaderBytes(c.orig, c.len) \o c.body

StreamBytes(cs) == Flatten([i \in 1..Len(cs) |-> ChunkBytes(cs[i])])

NoFault == [on |-> FALSE, at |-> 0, err |-> "nil"]

\* The errors a failing source returns: an I/O error, and the value
\* snappy.ErrCorrupt, which Read of the Snappy decoder tests for.
SourceErrors == {"ErrIO", "ErrCorrupt"}

Input(K, cs, S, m, f) == [kind |-> K, chunks |-> cs, src |-> S, mode |-> m, fault |-> f]

\* Streams of chunks, whole or with their last bytes cut off, on a sound
\* source that reads in full or short.
StreamInputs ==
    UNION {{Input(K, cs, SubSeq(StreamBytes(cs), 1, Len(StreamBytes(cs)) - t), m, NoFault) :
              cs \in ChunkSeqs(K, MaxChunks), t \in 0..MaxTrunc, m \in {"full", "short"}} :
           K \in Kinds}

\* Streams on a source that breaks at some position.
FaultInputs ==
    UNION {UNION {{Input(K, cs, StreamBytes(cs), "full", [on |-> TRUE, at |-> a, err |-> e]) :
                     a \in 0..Len(StreamBytes(cs)), e \in SourceErrors} :
                  cs \in ChunkSeqs(K, MaxFaultChunks)} :
           K \in Kinds}

\* Chunk lengths across the 23-bit range of the header.
HeaderLens == {0, 1, 2, 127, 128, 255, 256, 32767, 32768, 65535, 65536, 8388607}

\* Streams that are one header alone.
HeaderInputs ==
    {Input(K, <<[orig |-> o, len |-> L, body |-> <<>>, content |-> <<>>, valid |-> FALSE]>>,
           HeaderBytes(o, L), "full", NoFault) :
       K \in {"zlib", "snappy"}, o \in BOOLEAN, L \in HeaderLens}

Inputs == StreamInputs \cup FaultInputs \cup HeaderInputs

\* ------------------------------------------------------------------- state
VARIABLES
    kind,          \* kind[d]: the codec whose Decoder built decoder d
    src,           \* src[d]: the bytes of d's source
    mode,          \* mode[d]: how d's source reads ("full" or "short")
    fault,         \* fault[d]: where d's source breaks, if it does
    chunks,        \* chunks[d]: the chunks src[d] was built from
    pos,           \* pos[d]: read position of d's source
    decoded,       \* field decoded
    isOriginal,    \* field isOriginal
    chunkLength,   \* field chunkLength
    out,           \* out[d]: all bytes d's Read calls have returned
    calls,         \* calls[d]: number of Read calls made on d
    last,          \* last[d]: the latest Read call: result and what it did
    obs,           \* obs[d]: summary of the results of all calls so far
    alone          \* alone[d]: a decoder given d's source and d's calls only

vars == <<kind, src, mode, fault, chunks, pos, decoded, isOriginal, chunkLength,
          out, calls, last, obs, alone>>

Decoders == DOMAIN kind

NoCall == [n |-> 0, err |-> "nil", hdr |-> FALSE, hn |-> 0, inner |-> "nil",
           srcErrs |-> 0, avail0 |-> 0]

NoObs == [eofs |-> 0, errSeen |-> FALSE, afterErr |-> FALSE, over |-> FALSE,
          hdrs |-> 0, hdrAt |-> 0, zeros |-> 0]

Fresh == [pos |-> 0, decoded |-> NilReader, isOriginal |-> FALSE, chunkLength |-> 0,
          out |-> <<>>, n |-> 0, err |-> "nil"]

\* Decoder(r): &Compression...Decoder{source: r}, every other field zero.
InitOf(inp) ==
    /\ kind = inp.kind /\ src = inp.src /\ mode = inp.mode
    /\ fault = inp.fault /\ chunks = inp.chunks
    /\ pos = [d \in DOMAIN inp.kind |-> 0]
    /\ decoded = [d \in DOMAIN inp.kind |-> NilReader]
    /\ isOriginal = [d \in DOMAIN inp.kind |-> FALSE]
    /\ chunkLength = [d \in DOMAIN inp.kind |-> 0]
    /\ out = [d \in DOMAIN inp.kind |-> <<>>]
    /\ calls = [d \in DOMAIN inp.kind |-> 0]
    /\ last = [d \in DOMAIN inp.kind |-> NoCall]
    /\ obs = [d \in DOMAIN inp.kind |-> NoObs]
    /\ alone = [d \in DOMAIN inp.kind |-> Fresh]

\* One decoder, on any input.
Init ==
    \E i \in Inputs :
      InitOf([kind |-> 1 :> i.kind, src |-> 1 :> i.src, mode |-> 1 :> i.mode,
              fault |-> 1 :> i.fault, chunks |-> 1 :> i.chunks])

Fields(d) == [pos |-> pos[d], decoded |-> decoded[d],
              isOriginal |-> isOriginal[d], chunkLength |-> chunkLength[d]]

\* What Read with len(p) = k may do on the decoder of d's kind and source
\* whose fields are st.
ReadOutcomesOn(d, st, k) ==
    CASE kind[d] = "zlib" -> ZlibRead(src[d], mode[d], fault[d], st, k)
      [] kind[d] = "snappy" -> SnappyRead(src[d], mode[d], fault[d], st, k)
      [] OTHER -> NoneRead(src[d], mode[d], fault[d], st, k)

\* What a Read call with len(p) = k may do on decoder d.
ReadOutcomes(d, k) == ReadOutcomesOn(d, Fields(d), k)

\* The same call on the decoder that runs alone: the source answers its
\* reads as it answered them in outcome r, when it can.
AloneOf(d, k, r) ==
    LET a == alone[d]
        outs == ReadOutcomesOn(d, [pos |-> a.pos, decoded |-> a.decoded,
                                   isOriginal |-> a.isOriginal,
                                   chunkLength |-> a.chunkLength], k)
        q == IF r \in outs THEN r ELSE CHOOSE x \in outs : TRUE
    IN [pos |-> q.pos, decoded |-> q.decoded, isOriginal |-> q.isOriginal,
        chunkLength |-> q.chunkLength, out |-> a.out \o q.bytes, n |-> q.n, err |-> q.err]

\* The record of a call with len(p) = k and outcome r on decoder d.
CallOf(d, k, r) ==
    [n |-> r.n, err |-> r.err, hdr |-> r.hdr, hn |-> r.hn, inner |-> r.inner,
     srcErrs |-> r.srcErrs, avail0 |-> Len(src[d]) - pos[d]]

ObsOf(d, r) ==
    [eofs |-> obs[d].eofs + (IF r.err = "EOF" THEN 1 ELSE 0),
     errSeen |-> obs[d].errSeen \/ r.err \notin {"nil", "EOF"},
     afterErr |-> obs[d].afterErr \/ (obs[d].errSeen /\ (r.n > 0 \/ r.err = "nil")),
     over |-> obs[d].over \/
              (r.hdr /\ r.hn > 0 /\ r.chunkLength > Len(src[d]) - (pos[d] + r.hn)),
     \* headers parsed so far, and where the source stood when the latest
     \* of them was read
     hdrs |-> obs[d].hdrs + (IF r.hdr /\ r.err = "nil" THEN 1 ELSE 0),
     hdrAt |-> IF r.hdr /\ r.err = "nil" THEN pos[d] ELSE obs[d].hdrAt,
     \* the run of calls, up to this one, that returned (0, nil)
     zeros |-> IF r.n = 0 /\ r.err = "nil" THEN obs[d].zeros + 1 ELSE 0]

\* Decoders whose field decoded is one shared variable: a call on one
\* decoder replaces the chunk reader of all.
CommitShared(R) ==
    LET w == CHOOSE d \in DOMAIN R : TRUE IN
    /\ pos' = [d \in Decoders |-> IF d \in DOMAIN R THEN R[d].r.pos ELSE pos[d]]
    /\ decoded' = [d \in Decoders |-> R[w].r.decoded]
    /\ isOriginal' = [d \in Decoders |->
                        IF d \in DOMAIN R THEN R[d].r.isOriginal ELSE isOriginal[d]]
    /\ chunkLength' = [d \in Decoders |->
                         IF d \in DOMAIN R THEN R[d].r.chunkLength ELSE chunkLength[d]]
    /\ out' = [d \in Decoders |-> IF d \in DOMAIN R THEN out[d] \o R[d].r.bytes ELSE out[d]]
    /\ calls' = [d \in Decoders |-> IF d \in DOMAIN R THEN calls[d] + 1 ELSE calls[d]]
    /\ last' = [d \in Decoders |->
                  IF d \in DOMAIN R THEN CallOf(d, R[d].k, R[d].r) ELSE last[d]]
    /\ obs' = [d \in Decoders |-> IF d \in DOMAIN R THEN ObsOf(d, R[d].r) ELSE obs[d]]
    /\ alone' = [d \in Decoders |->
                   IF d \in DOMAIN R THEN AloneOf(d, R[d].k, R[d].r) ELSE alone[d]]
    /\ UNCHANGED <<kind, src, mode, fault, chunks>>

\* Each decoder owns its fields and its source: the calls R[d] (size and
\* outcome) change the decoders d in DOMAIN R and no other.
Commit(R) ==
    /\ pos' = [d \in Decoders |-> IF d \in DOMAIN R THEN R[d].r.pos ELSE pos[d]]
    /\ decoded' = [d \in Decoders |-> IF d \in DOMAIN R THEN R[d].r.decoded ELSE decoded[d]]
    /\ isOriginal' = [d \in Decoders |->
                        IF d \in DOMAIN R THEN R[d].r.isOriginal ELSE isOriginal[d]]
    /\ chunkLength' = [d \in Decoders |->
                         IF d \in DOMAIN R THEN R[d].r.chunkLength ELSE chunkLength[d]]
    /\ out' = [d \in Decoders |-> IF d \in DOMAIN R THEN out[d] \o R[d].r.bytes ELSE out[d]]
    /\ calls' = [d \in Decoders |-> IF d \in DOMAIN R THEN calls[d] + 1 ELSE calls[d]]
    /\ last' = [d \in Decoders |->
                  IF d \in DOMAIN R THEN CallOf(d, R[d].k, R[d].r) ELSE last[d]]
    /\ obs' = [d \in Decoders |-> IF d \in DOMAIN R THEN ObsOf(d, R[d].r) ELSE obs[d]]
    /\ alone' = [d \in Decoders |->
                   IF d \in DOMAIN R THEN AloneOf(d, R[d].k, R[d].r) ELSE alone[d]]
    /\ UNCHANGED <<kind, src, mode, fault, chunks>>

\* The caller calls d.Read(p) with a buffer of 1..MaxBuf bytes.
Read(d, K) ==
    /\ kind[d] = K
    /\ calls[d] < MaxCalls
    /\ \E k \in 1..MaxBuf : \E r \in ReadOutcomes(d, k) :
         Commit(d :> [k |-> k, r |-> r])

\* A call on one of the Zlib decoders.
ZlibDecoderRead == \E d \in Decoders : Read(d, "zlib")

\* A call on one of the Snappy decoders.
SnappyDecoderRead == \E d \in Decoders : Read(d, "snappy")

\* A call on one of the readers CompressionNone.Decoder returned.
NoneDecoderRead == \E d \in Decoders : Read(d, "none")

Next ==
    \/ ZlibDecoderRead
    \/ SnappyDecoderRead
    \/ NoneDecoderRead

Spec == Init /\ [][Next]_vars

\* Two decoders, each built over a source of its own; their Read calls
\* interleave in every order.
PairInputs ==
    UNION {{Input(K, cs, StreamBytes(cs), "full", NoFault) : cs \in ChunkSeqs(K, MaxPairChunks)} :
           K \in Kinds}

OtherInputs ==
    {Input(K, <<Chunk(TRUE, <<65, 72, 73>>, <<65, 72, 73>>, TRUE)>>,
           StreamBytes(<<Chunk(TRUE, <<65, 72, 73>>, <<65, 72, 73>>, TRUE)>>), "full", NoFault) :
       K \in Kinds}

InitPair ==
    \E i \in PairInputs, j \in OtherInputs :
      InitOf([kind |-> <<i.kind, j.kind>>, src |-> <<i.src, j.src>>,
              mode |-> <<i.mode, j.mode>>, fault |-> <<i.fault, j.fault>>,
              chunks |-> <<i.chunks, j.chunks>>])

SpecPair == InitPair /\ [][Next]_vars

\* ------------------------------------------------------------- sanity
\* No run hands a Huffman-coded block to the decompressor: every DEFLATE
\* body the decoders meet is within what Inflate models.
InflateModelled == \A d \in Decoders : decoded[d].ferr # "Unmodelled"

\* ------------------------------------------------------------- claims
Framed == {"zlib", "snappy"}

\* src[d] is a sequence of whole chunks with valid bodies on a sound source.
WellFormed(d) ==
    /\ src[d] = StreamBytes(chunks[d])
    /\ \A i \in 1..Len(chunks[d]) : chunks[d][i].valid
    /\ ~fault[d].on

\* The concatenation of the chunks' decoded contents.
Expected(d) == Flatten([i \in 1..Len(chunks[d]) |-> chunks[d][i].content])

\* The latest call is the first one to return io.EOF.
FirstEOF(d) == last[d].err = "EOF" /\ obs[d].eofs = 1

\* C1: on a stream of well-formed chunks, whatever the caller's buffer
\* sizes, the bytes returned up to the first io.EOF are the concatenation of
\* the chunks' decoded contents.
C1_StreamDecodes ==
    \A d \in Decoders :
      (kind[d] \in Framed /\ WellFormed(d) /\ FirstEOF(d)) => out[d] = Expected(d)

\* The same on the sources that read in full: there the decoders do
\* return the chunks' contents.
StreamDecodesOnFullReads ==
    \A d \in Decoders :
      (kind[d] \in Framed /\ WellFormed(d) /\ FirstEOF(d) /\ mode[d] = "full")
        => out[d] = Expected(d)

\* src[d] is exactly one original chunk, on a sound source.
OneOriginalChunk(d) ==
    /\ Len(chunks[d]) = 1 /\ chunks[d][1].orig
    /\ src[d] = StreamBytes(chunks[d])
    /\ ~fault[d].on

IsPrefix(s, t) == Len(s) <= Len(t) /\ s = SubSeq(t, 1, Len(s))

HeaderValueAt(d) ==
    LET p0 == Len(src[d]) - last[d].avail0
    IN src[d][p0 + 1] + 256 * src[d][p0 + 2] + 65536 * src[d][p0 + 3]

\* C3: a header delivered in full as bytes b0 b1 b2 sets isOriginal to the
\* low bit of v = b0 + 256 b1 + 65536 b2 and chunkLength to v div 2, which is
\* below 2^23; and the header written for a pair (isOriginal, chunkLength)
\* parses back to that pair.
C3_HeaderParse ==
    \A d \in Decoders :
      (kind[d] \in Framed /\ last[d].hdr /\ last[d].hn = 3) =>
        /\ isOriginal[d] = (HeaderValueAt(d) % 2 = 1)
        /\ chunkLength[d] = HeaderValueAt(d) \div 2
        /\ chunkLength[d] >= 0 /\ chunkLength[d] < 8388608
        /\ calls[d] = 1 =>
             /\ isOriginal[d] = chunks[d][1].orig
             /\ chunkLength[d] = chunks[d][1].len

C3_Witness ==
    \E d \in Decoders :
      /\ kind[d] \in Framed /\ last[d].hdr /\ last[d].hn = 3 /\ calls[d] = 1
      /\ src[d] = <<5, 0, 0>> /\ isOriginal[d] /\ chunkLength[d] = 2

C3_WitnessMax ==
    \E d \in Decoders :
      /\ kind[d] \in Framed /\ last[d].hdr /\ last[d].hn = 3
      /\ src[d] = <<254, 255, 255>> /\ ~isOriginal[d] /\ chunkLength[d] = 8388607

\* C4 (on sound sources that read in full): a header read that finds only
\* 1 or 2 bytes before the end of input fails with an error that is not
\* io.EOF and builds no chunk reader.
C4_TruncatedHeaderFails ==
    \A d \in Decoders :
      (kind[d] \in Framed /\ mode[d] = "full" /\ ~fault[d].on
         /\ last[d].hdr /\ last[d].avail0 \in {1, 2})
        => (last[d].err \notin {"nil", "EOF"} /\ decoded[d].t = "nil")

\* C5 (on sound sources that read in full): once a parsed header has
\* declared more bytes than the source has left, io.EOF is not returned
\* unless an error was returned before it.
C5_TruncatedChunkFails ==
    \A d \in Decoders :
      (kind[d] \in Framed /\ mode[d] = "full" /\ ~fault[d].on
         /\ obs[d].over /\ last[d].err = "EOF")
        => obs[d].errSeen

\* C6: io.EOF comes from the header parser alone, when the source has no
\* byte left; a chunk reader's io.EOF is returned as nil; on an empty source
\* the first call returns 0 bytes and io.EOF.
C6_EOFOnlyFromHeader ==
    \A d \in Decoders :
      (kind[d] \in Framed /\ calls[d] > 0) =>
        /\ last[d].err = "EOF" => (last[d].hdr /\ last[d].avail0 = 0)
        /\ ~last[d].hdr => last[d].err # "EOF"
        /\ (~last[d].hdr /\ last[d].inner = "EOF") => (last[d].err = "nil" /\ decoded[d].t = "nil")
        /\ (Len(src[d]) = 0 /\ ~fault[d].on /\ calls[d] = 1)
             => (last[d].n = 0 /\ last[d].err = "EOF" /\ out[d] = <<>>)

\* A chunk reader ran out with bytes still in the source and the call
\* returned nil.
C6_Witness ==
    \E d \in Decoders :
      /\ kind[d] \in Framed /\ ~last[d].hdr /\ last[d].inner = "EOF"
      /\ last[d].err = "nil" /\ last[d].avail0 > 0 /\ decoded[d].t = "nil"

C6_WitnessEmpty ==
    \E d \in Decoders :
      /\ kind[d] \in Framed /\ Len(src[d]) = 0 /\ calls[d] = 1 /\ last[d].err = "EOF"

\* C7: the Snappy decoder returns nil, not the decode error, from the call
\* that finds a compressed chunk's body corrupt.
C7_CorruptionSwallowed ==
    \A d \in Decoders :
      (kind[d] = "snappy" /\ last[d].inner = "ErrCorrupt" /\ last[d].srcErrs = 0)
        => last[d].err = "nil"

\* C8: a call in which the source failed returns the source's error, and
\* the source failed once in it (no second attempt).
C8_SourceErrorSameCall ==
    \A d \in Decoders :
      last[d].srcErrs > 0 => (last[d].err = fault[d].err /\ last[d].srcErrs = 1)

\* A Deflate chunk reader holds the source's error behind decompressed
\* bytes it has not handed over yet.
SourceErrorPending(d) ==
    /\ decoded[d].t = "flate" /\ fault[d].on
    /\ decoded[d].ferr = fault[d].err /\ decoded[d].data # <<>>

\* The Snappy decoder reads the body of an original chunk from a source
\* that fails with snappy.ErrCorrupt.
SourceErrorTakenForCorruption(d) ==
    kind[d] = "snappy" /\ decoded[d].t = "limit" /\ fault[d].err = "ErrCorrupt"

\* What the code does do with a source error.  A call in which the source
\* failed meets one failure only and returns the source's error, with two
\* exceptions.  A Deflate chunk reader that holds more decompressed bytes
\* than the caller's buffer takes hands these over first: the calls return
\* them with a nil error, without reading the source again, and the call
\* that hands over the last of them returns the source's error.  And the
\* Snappy decoder, reading an original chunk, takes snappy.ErrCorrupt from
\* the source for the end of the chunk: it returns nil and drops the chunk
\* reader.
SourceErrorPropagation ==
    [][\A d \in Decoders :
         calls'[d] # calls[d] =>
           /\ last'[d].srcErrs > 0 =>
                /\ last'[d].srcErrs = 1
                /\ \/ last'[d].err = fault[d].err /\ ~SourceErrorTakenForCorruption(d)
                   \/ SourceErrorPending(d)' /\ last'[d].n > 0 /\ last'[d].err = "nil"
                   \/ /\ SourceErrorTakenForCorruption(d)
                      /\ last'[d].err = "nil" /\ decoded'[d].t = "nil"
           /\ SourceErrorPending(d) =>
                /\ pos'[d] = pos[d] /\ last'[d].srcErrs = 0 /\ last'[d].n > 0
                /\ \/ last'[d].err = fault[d].err /\ ~SourceErrorPending(d)'
                   \/ last'[d].err = "nil" /\ SourceErrorPending(d)']_vars

\* The source failed in the middle of a chunk body and the call that met
\* the failure returned it.
SourceErrorReturned ==
    \E d \in Decoders :
      /\ kind[d] \in Framed /\ ~last[d].hdr
      /\ last[d].srcErrs = 1 /\ last[d].err = "ErrIO"

\* The source's error, held back behind pending bytes, has come out.
SourceErrorDeferred ==
    \E d \in Decoders :
      /\ decoded[d].t = "flate" /\ decoded[d].ferr = "ErrIO" /\ decoded[d].data = <<>>
      /\ last[d].srcErrs = 0 /\ last[d].err = "ErrIO" /\ last[d].n > 0

\* The Snappy decoder has taken the source's snappy.ErrCorrupt for the end
\* of an original chunk and returned nil.
SourceErrorSwallowed ==
    \E d \in Decoders :
      /\ kind[d] = "snappy" /\ ~last[d].hdr /\ last[d].srcErrs = 1
      /\ last[d].inner = "ErrCorrupt" /\ last[d].err = "nil" /\ decoded[d].t = "nil"

\* C9 (on sound sources that read in full): after a call has returned an
\* error that is not io.EOF, no call returns bytes or a nil error.
C9_BrokenAfterError ==
    \A d \in Decoders :
      (kind[d] \in Framed /\ mode[d] = "full" /\ ~fault[d].on) => ~obs[d].afterErr

\* C10: under every interleaving of the calls on two decoders, each
\* decoder has the fields, the output and the latest result of a decoder
\* that was given its source and its calls alone.
C10_Independent ==
    \A d \in Decoders :
      /\ alone[d].pos = pos[d] /\ alone[d].decoded = decoded[d]
      /\ alone[d].isOriginal = isOriginal[d] /\ alone[d].chunkLength = chunkLength[d]
      /\ alone[d].out = out[d]
      /\ alone[d].n = last[d].n /\ alone[d].err = last[d].err

\* Both decoders are in the middle of a chunk, each at its own position.
C10_Witness ==
    /\ Decoders = {1, 2}
    /\ decoded[1].t # "nil" /\ decoded[2].t # "nil"
    /\ out[1] # <<>> /\ out[2] # <<>> /\ pos[1] # pos[2]

\* C11 (on sound sources): a header read that finds at least 3 bytes left in
\* the source and parses a header has taken exactly 3 bytes from the source,
\* also when the source hands them over in more than one read.
C11_HeaderConsumesThree ==
    \A d \in Decoders :
      (kind[d] \in Framed /\ ~fault[d].on
         /\ last[d].hdr /\ last[d].err = "nil" /\ last[d].avail0 >= 3)
        => last[d].hn = 3

\* The same on the sources that read in full.
HeaderConsumesThreeOnFullReads ==
    \A d \in Decoders :
      (kind[d] \in Framed /\ ~fault[d].on /\ mode[d] = "full"
         /\ last[d].hdr /\ last[d].err = "nil" /\ last[d].avail0 >= 3)
        => last[d].hn = 3

\* The offsets of src[d] at which the chunks of the stream begin.
ChunkOffsets(d) ==
    {Len(StreamBytes(SubSeq(chunks[d], 1, j))) : j \in 0..(Len(chunks[d]) - 1)}

\* The source offset one past the body of the chunk whose header d parsed
\* last.
ChunkEnd(d) == obs[d].hdrAt + 3 + chunkLength[d]

\* Decoder d, having parsed a header, read it at the start of a chunk, has
\* not read past the end of that chunk's body, and stands at that end when
\* it holds no chunk reader.
Aligned(d) ==
    obs[d].hdrs > 0 =>
      /\ obs[d].hdrAt \in ChunkOffsets(d)
      /\ pos[d] <= ChunkEnd(d)
      /\ decoded[d].t = "nil" => pos[d] = ChunkEnd(d)

\* C12: on a stream of well-formed chunks every header is parsed at a chunk
\* boundary, the decoder never consumes source bytes beyond the current
\* chunk's body, and when it leaves the chunk it has consumed exactly
\* chunkLength body bytes since the header.
C12_FramingAligned ==
    \A d \in Decoders : (kind[d] \in Framed /\ WellFormed(d)) => Aligned(d)

\* The same on the sources that read in full.
FramingAlignedOnFullReads ==
    \A d \in Decoders :
      (kind[d] \in Framed /\ WellFormed(d) /\ mode[d] = "full") => Aligned(d)

\* A decoder on a full-reading source has left the first chunk of two and
\* stands at the second chunk's header.
FramingAlignedReached ==
    \E d \in Decoders :
      /\ kind[d] \in Framed /\ WellFormed(d) /\ mode[d] = "full"
      /\ Len(chunks[d]) = 2 /\ obs[d].hdrs = 1 /\ decoded[d].t = "nil"
      /\ chunkLength[d] > 0 /\ pos[d] = 3 + chunkLength[d]

\* The latest call of d read the active chunk reader and got io.EOF from it.
ChunkExhausted(d) == calls[d] > 0 /\ ~last[d].hdr /\ last[d].inner = "EOF"

\* C13: a call that gets io.EOF from the active chunk reader leaves the
\* decoder without a chunk reader, and the call after it is a header read on
\* the source that returns no data byte: the exhausted reader is not read
\* again.
C13_ExhaustedNeverReused ==
    [][\A d \in Decoders :
         (kind[d] \in Framed /\ calls'[d] # calls[d]) =>
           /\ ChunkExhausted(d)' => decoded'[d].t = "nil"
           /\ ChunkExhausted(d) =>
                /\ decoded[d].t = "nil"
                /\ last'[d].hdr /\ last'[d].n = 0 /\ out'[d] = out[d]
                /\ last'[d].avail0 = Len(src[d]) - pos[d]]_vars

\* A chunk reader was exhausted after handing over data, and the call after
\* it parsed the next chunk's header.
C13_Witness ==
    \E d \in Decoders :
      /\ kind[d] \in Framed /\ obs[d].hdrs = 2 /\ last[d].hdr /\ last[d].err = "nil"
      /\ out[d] # <<>> /\ decoded[d].t # "nil" /\ decoded[d].N + Len(decoded[d].data) > 0

\* C14: a call that finds no chunk reader is a header read: it parses at
\* most one header, returns 0 bytes and adds nothing to the output, and a
\* reader it builds has not been read yet; a call that finds a chunk
\* reader parses no header, keeps isOriginal and chunkLength, keeps the
\* reader or drops it, and returns bytes of that reader only, without
\* reading the source past the end of the chunk's body.
C14_OneTransitionPerCall ==
    [][\A d \in Decoders :
         (kind[d] \in Framed /\ calls'[d] # calls[d]) =>
           /\ decoded[d].t = "nil" =>
                /\ last'[d].hdr /\ last'[d].n = 0 /\ out'[d] = out[d]
                /\ obs'[d].hdrs <= obs[d].hdrs + 1
                /\ decoded'[d].t \in {"limit", "flate"} =>
                     /\ decoded'[d].N = chunkLength'[d]
                     /\ decoded'[d].data = <<>> /\ decoded'[d].ferr = "nil"
                     /\ pos'[d] = pos[d] + last'[d].hn
           /\ decoded[d].t # "nil" =>
                /\ ~last'[d].hdr /\ obs'[d].hdrs = obs[d].hdrs
                /\ isOriginal'[d] = isOriginal[d] /\ chunkLength'[d] = chunkLength[d]
                /\ decoded'[d].t \in {"nil", decoded[d].t}
                /\ Len(out'[d]) = Len(out[d]) + last'[d].n
                /\ pos'[d] - pos[d] <= decoded[d].N
                /\ pos'[d] <= ChunkEnd(d)
                /\ decoded[d].t = "limit" =>
                     /\ last'[d].n = pos'[d] - pos[d]
                     /\ out'[d] = out[d] \o SubSeq(src[d], pos[d] + 1, pos'[d])
                /\ decoded[d].t = "bytes" =>
                     /\ pos'[d] = pos[d]
                     /\ out'[d] = out[d] \o Take(decoded[d].data, last'[d].n)]_vars

\* The decoder is in the middle of its second chunk: the latest call
\* returned bytes of that chunk and left more of it to read.
C14_Witness ==
    \E d \in Decoders :
      /\ kind[d] \in Framed /\ obs[d].hdrs = 2 /\ ~last[d].hdr /\ last[d].n > 0
      /\ decoded[d].t = "limit" /\ decoded[d].N > 0

\* No Read call on d, whatever the buffer size, returns io.EOF or changes
\* the decoder or the position of its source: repeating Read never gets to
\* io.EOF.
Stuck(d) ==
    \A k \in 1..MaxBuf : \A r \in ReadOutcomes(d, k) :
      /\ r.err # "EOF"
      /\ r.pos = pos[d] /\ r.decoded = decoded[d]
      /\ r.isOriginal = isOriginal[d] /\ r.chunkLength = chunkLength[d]

\* The source is at its end and d holds no chunk reader.
AtCleanEnd(d) == pos[d] = Len(src[d]) /\ decoded[d].t = "nil"

\* C15 (the number of calls is capped, so termination is stated as a safety
\* property): on a stream of well-formed chunks read from a sound source the
\* decoder never reaches a state from which repeated Read calls cannot get
\* to io.EOF; at the end of the source with no chunk reader every Read
\* returns 0 bytes and io.EOF and changes nothing; and after the first
\* io.EOF every call returns io.EOF.
C15_Terminates ==
    \A d \in Decoders :
      (kind[d] \in Framed /\ WellFormed(d)) =>
        /\ ~Stuck(d)
        /\ AtCleanEnd(d) =>
             \A k \in 1..MaxBuf : \A r \in ReadOutcomes(d, k) :
               r.n = 0 /\ r.err = "EOF" /\ r.pos = pos[d] /\ r.decoded = decoded[d]
        /\ obs[d].eofs > 0 => last[d].err = "EOF"

\* Calls that a stream of chunks takes at most before io.EOF: per chunk the
\* header call and the call that finds the chunk reader exhausted, and one
\* call per byte of content.
Budget(d) == 2 * Len(chunks[d]) + Len(Expected(d))

\* On the sources that read in full the decoder is never stuck and io.EOF
\* comes within Budget(d) + 1 calls.
TerminatesOnFullReads ==
    \A d \in Decoders :
      (kind[d] \in Framed /\ WellFormed(d) /\ mode[d] = "full") =>
        /\ ~Stuck(d)
        /\ obs[d].eofs = 0 => calls[d] <= Budget(d)
        /\ obs[d].eofs > 0 => last[d].err = "EOF"

\* The longest stream was read one byte at a time and io.EOF came with call
\* Budget(d) + 1.
TerminatesOnFullReadsReached ==
    \E d \in Decoders :
      /\ kind[d] \in Framed /\ WellFormed(d) /\ mode[d] = "full"
      /\ Len(chunks[d]) = MaxChunks /\ FirstEOF(d) /\ calls[d] = Budget(d) + 1

\* src[d] is a stream of original chunks, whole or cut short.
OriginalOnly(d) ==
    /\ \A i \in 1..Len(chunks[d]) : chunks[d][i].orig
    /\ IsPrefix(src[d], StreamBytes(chunks[d]))

\* What the caller and the source see of an outcome: the result (byte
\* count, bytes, error) and the position the source is left at.
Seen(r) == [n |-> r.n, bytes |-> r.bytes, err |-> r.err, pos |-> r.pos]

\* C16: in every state a decoder reaches on a stream of original chunks,
\* and for every buffer size, a Zlib Read and a Snappy Read have the same
\* possible results and leave the source at the same positions.  Both
\* decoders start from the same fields, so equal steps give equal runs.
C16_ZlibSnappySame ==
    \A d \in Decoders :
      (kind[d] \in Framed /\ OriginalOnly(d)) =>
        \A k \in 1..MaxBuf :
          {Seen(r) : r \in ZlibRead(src[d], mode[d], fault[d], Fields(d), k)}
            = {Seen(r) : r \in SnappyRead(src[d], mode[d], fault[d], Fields(d), k)}

\* On the sources that read in full, sound or failing with an I/O error,
\* the two Reads have the same outcomes, fields included: the decoders stay
\* in the same state call after call.
ZlibSnappySameOnFullReads ==
    \A d \in Decoders :
      (kind[d] \in Framed /\ OriginalOnly(d) /\ mode[d] = "full"
         /\ fault[d].err # "ErrCorrupt") =>
        \A k \in 1..MaxBuf :
          ZlibRead(src[d], mode[d], fault[d], Fields(d), k)
            = SnappyRead(src[d], mode[d], fault[d], Fields(d), k)

\* A Snappy decoder has read a truncated stream of original chunks to
\* io.EOF, in step with the Zlib decoder.
ZlibSnappySameReached ==
    \E d \in Decoders :
      /\ kind[d] = "snappy" /\ OriginalOnly(d) /\ mode[d] = "full"
      /\ Len(src[d]) < Len(StreamBytes(chunks[d])) /\ out[d] # <<>> /\ FirstEOF(d)

\* The latest call of d was a header read that returned an error.
HeaderCallFailed(d) == calls[d] > 0 /\ last[d].hdr /\ last[d].err # "nil"

\* C17: a header call that returns an error (from the source's header
\* read, from reading a Snappy chunk's body, or from snappy.Decode) leaves
\* the decoder without a chunk reader and the source where the call's reads
\* left it: past the header bytes that were read and, for a Snappy body,
\* past every body byte that was read; the next call is a header read that
\* starts at that position.
C17_FailedHeaderCall ==
    [][\A d \in Decoders :
         (kind[d] \in Framed /\ calls'[d] # calls[d]) =>
           /\ HeaderCallFailed(d)' =>
                /\ decoded[d].t = "nil" /\ decoded'[d].t = "nil"
                /\ pos'[d] >= pos[d] + last'[d].hn
                /\ last'[d].inner = last'[d].err
                /\ (last'[d].hn = 0 \/ kind[d] = "zlib") =>
                     /\ pos'[d] = pos[d] /\ last'[d].hn = 0
                     /\ isOriginal'[d] = isOriginal[d] /\ chunkLength'[d] = chunkLength[d]
                /\ (last'[d].hn > 0 /\ kind[d] = "snappy") =>
                     /\ ~isOriginal'[d]
                     /\ pos'[d] = pos[d] + last'[d].hn
                                    + Min(chunkLength'[d],
                                          SrcLimit(src[d], fault[d]) - (pos[d] + last'[d].hn))
           /\ HeaderCallFailed(d) =>
                /\ last'[d].hdr
                /\ last'[d].avail0 = Len(src[d]) - pos[d]]_vars

\* snappy.Decode failed on a chunk body: the call returned the error, the
\* body stays consumed and the decoder holds no chunk reader.
C17_Witness ==
    \E d \in Decoders :
      /\ kind[d] = "snappy" /\ HeaderCallFailed(d)
      /\ last[d].err = "ErrCorrupt" /\ last[d].srcErrs = 0 /\ last[d].hn = 3
      /\ decoded[d].t = "nil" /\ chunkLength[d] > 0
      /\ pos[d] = (Len(src[d]) - last[d].avail0) + 3 + chunkLength[d]

\* src[d] is a stream of whole original chunks, each of at least minLen
\* body bytes, on a sound source.
OriginalChunksOf(d, minLen) ==
    /\ WellFormed(d)
    /\ \A i \in 1..Len(chunks[d]) : chunks[d][i].orig /\ chunks[d][i].len >= minLen

\* C18: on a stream of well-formed original chunks that all have
\* chunkLength >= 1, read with buffers of at least 1 byte from a sound
\* source, no more than two calls in a row return (0, nil).
C18_ZeroReadsBounded ==
    \A d \in Decoders :
      (kind[d] \in Framed /\ OriginalChunksOf(d, 1)) => obs[d].zeros <= 2

\* The same on the sources that read in full; and there a stream of n
\* chunks, empty ones allowed, gives no more than 2 n such calls in a row.
ZeroReadsBoundedOnFullReads ==
    \A d \in Decoders :
      (kind[d] \in Framed /\ mode[d] = "full") =>
        /\ OriginalChunksOf(d, 1) => obs[d].zeros <= 2
        /\ OriginalChunksOf(d, 0) => obs[d].zeros <= 2 * Len(chunks[d])

\* Two calls in a row returned (0, nil): the call that found the first
\* chunk exhausted and the header call of the second chunk.
ZeroReadsTwoReached ==
    \E d \in Decoders :
      /\ kind[d] \in Framed /\ OriginalChunksOf(d, 1) /\ mode[d] = "full"
      /\ obs[d].zeros = 2 /\ obs[d].hdrs = 2 /\ last[d].hdr

\* With empty chunks the run of (0, nil) results grows with the number of
\* chunks: two calls for each chunk of the longest stream.
ZeroReadsGrowReached ==
    \E d \in Decoders :
      /\ kind[d] \in Framed /\ OriginalChunksOf(d, 0) /\ mode[d] = "full"
      /\ Len(chunks[d]) = MaxChunks /\ obs[d].zeros = 2 * MaxChunks

====
